---- MODULE Spec2Model ----
(***************************************************************************)
(* A model of the live execution core of the trading-algo repository:      *)
(*   - StrategyManager (src/strategy_manager.py): start / stop /           *)
(*     get_status / get_logs over one child process and one log queue,     *)
(*     called by one or more threads of the hosting program;               *)
(*   - run_strategy (src/strategy_manager.py): the child process, its      *)
(*     bootstrap, the feed callbacks and the event loop;                   *)
(*   - FVGStrategy (src/strategy/fvg_strategy.py): the period-aligned      *)
(*     control cycle check_open_orders -> analyze_and_trade ->             *)
(*     manage_positions -> display_table over the position table, against  *)
(*     a broker gateway.                                                   *)
(* Program counters are named after the source line they stand at.         *)
(***************************************************************************)
EXTENDS Integers, Sequences, FiniteSets, TLC

VARIABLES
    \* ---- StrategyManager (src/strategy_manager.py) ----
    process,      \* self.process: 0 for None, else the id of a Process object
    procs,        \* state of every Process object: "none", "new", "alive", "terminating", "dead"
    log_queue,    \* self.log_queue: the messages put by the children and not yet got
    tpc,          \* per calling thread: the line of the manager method it stands at
    result,       \* per calling thread: what its last completed call returned
    logs,         \* per calling thread: the local list `logs` of get_logs
    emitted,      \* number of messages the children have put on log_queue (message i is the i-th put)
    delivered,    \* every message returned by a completed get_logs call, in order of return
    marks,        \* <<emitted at the return before the last get_logs return, emitted at the last one>>
    termCalls,    \* the Process objects terminate() was called on
    joinCalls,    \* the Process objects join() returned for
    strategy_name,\* per calling thread: the argument of its running start call ("none": no such call)
    cpc,          \* per Process object: the line of run_strategy the child stands at
    sent,         \* message i is sent[i]: the child that put it and its text
    \* ---- run_strategy (src/strategy_manager.py), per Process object ----
    main_queue,   \* dispatcher._main_queue: the items put by dispatch and not yet got
    arrivals,     \* every event the feed has passed to on_ticks, in order of arrival
    handled,      \* the events strategy.on_ticks_update was called with, in order
    raised,       \* number of exceptions raised inside the try of lines 68-76
    conn,         \* connect notifications of the feed, and calls of broker.symbols_to_subscribe
    \* ---- FVGStrategy (src/strategy/fvg_strategy.py) and the broker ----
    symbols,      \* self.symbols: strat_var_symbols, in the order of the configuration
    positions,    \* self.positions: per symbol the position dict (status "NONE": no key)
    posOrder,     \* the keys of self.positions in insertion order (the order of iteration)
    orders,       \* the broker's book: every placement request, in order; an id is an index
    fpc,          \* the line of run() and of its callees the strategy stands at
    idx,          \* index of the running for loop
    ret,          \* the caller place_exit_orders returns to: "co" or "mp"
    cycle,        \* number of the running iteration of the while loop of run()
    quote,        \* quote.last_price of line 179 (0 when not in use)
    hist,         \* per symbol: breakeven adjustments done, cycle of the entry fill,
                  \* and the steps of manage_positions taken for it in the running cycle
    snap          \* per symbol: the exit orders and their status when the cycle began

mgrVars == <<process, procs, log_queue, tpc, result, logs, emitted, delivered, marks,
             termCalls, joinCalls, strategy_name, cpc, sent>>

runVars == <<main_queue, arrivals, handled, raised, conn>>

fvgVars == <<symbols, positions, posOrder, orders, fpc, idx, ret, cycle, quote, hist, snap>>

vars == <<mgrVars, runVars, fvgVars>>

----------------------------------------------------------------------------
\* Bounds of the model.
NThreads == 2      \* threads of the hosting program calling into one manager
MaxProcs == 2      \* Process objects created over a run
MaxMsgs  == 2      \* messages put on the log queue over a run
MaxCycles == 3     \* iterations of the while loop of FVGStrategy.run
MaxTicks == 3      \* events the feed passes to one child over a run
MaxConnects == 2   \* connect notifications of the feed of one child over a run

Threads == 1..NThreads
Pids    == 1..MaxProcs

----------------------------------------------------------------------------
\* StrategyManager

\* Process.is_alive() of the object self.process refers to: a started child
\* that has not exited (a terminated child is alive until it has exited).
is_alive(p) == p # 0 /\ procs[p] \in {"alive", "terminating"}

\* get_status (lines 117-120)
get_status_value == IF is_alive(process) THEN "Running" ELSE "Stopped"

AliveProcs == {p \in Pids : procs[p] \in {"alive", "terminating"}}

NextPid == Cardinality({p \in Pids : procs[p] # "none"}) + 1

MgrInit ==
    /\ process = 0
    /\ procs = [p \in Pids |-> "none"]
    /\ log_queue = <<>>
    /\ tpc = [t \in Threads |-> "idle"]
    /\ result = [t \in Threads |-> "none"]
    /\ logs = [t \in Threads |-> <<>>]
    /\ emitted = 0
    /\ delivered = <<>>
    /\ marks = <<0, 0>>
    /\ termCalls = {}
    /\ joinCalls = {}
    /\ strategy_name = [t \in Threads |-> "none"]
    /\ cpc = [p \in Pids |-> "none"]
    /\ sent = <<>>
    /\ main_queue = [p \in Pids |-> <<>>]
    /\ arrivals = [p \in Pids |-> <<>>]
    /\ handled = [p \in Pids |-> <<>>]
    /\ raised = [p \in Pids |-> 0]
    /\ conn = [p \in Pids |-> [connects |-> 0, subscribes |-> 0]]

\* A thread of the host calls a method of the manager.
Invoke(t, line) ==
    /\ tpc[t] = "idle"
    /\ tpc' = [tpc EXCEPT ![t] = line]
    /\ result' = [result EXCEPT ![t] = "none"]
    /\ UNCHANGED <<process, procs, log_queue, logs, emitted, delivered, marks,
                   termCalls, joinCalls>>
    /\ UNCHANGED <<cpc, sent, runVars, fvgVars>>

Return(t, val) ==
    /\ tpc' = [tpc EXCEPT ![t] = "idle"]
    /\ result' = [result EXCEPT ![t] = val]

Goto(t, line) ==
    /\ tpc' = [tpc EXCEPT ![t] = line]
    /\ UNCHANGED result

\* The strategy names a caller may pass to start.
StrategyNames == {"configured", "unconfigured"}

\* start, lines 95-96: os.path.exists of strategy/configs/<strategy_name>.yml
config_exists(name) == name = "configured"

\* start_check without the lookup of lines 95-97.
start_check_no_lookup(t, cfg) ==
    /\ tpc[t] = "start92"
    /\ IF is_alive(process) THEN Return(t, "already_running")
       ELSE Goto(t, "start105")
    /\ strategy_name' = [strategy_name EXCEPT ![t] = IF tpc'[t] = "idle" THEN "none" ELSE @]
    /\ UNCHANGED <<process, procs, log_queue, logs, emitted, delivered, marks,
                   termCalls, joinCalls>>
    /\ UNCHANGED <<cpc, sent, runVars, fvgVars>>

\* start, lines 92-103: the liveness test, then the configuration file lookup.
\* cfg is whether strategy/configs/<strategy_name>.yml exists.
start_check(t, cfg) ==
    /\ tpc[t] = "start92"
    /\ IF is_alive(process) THEN Return(t, "already_running")
       ELSE IF ~cfg THEN Return(t, "config_not_found")
       ELSE Goto(t, "start105")
    /\ strategy_name' = [strategy_name EXCEPT ![t] = IF tpc'[t] = "idle" THEN "none" ELSE @]
    /\ UNCHANGED <<process, procs, log_queue, logs, emitted, delivered, marks,
                   termCalls, joinCalls>>
    /\ UNCHANGED <<cpc, sent, runVars, fvgVars>>

\* start, line 105: self.process = multiprocessing.Process(...)
start_create(t) ==
    /\ tpc[t] = "start105"
    /\ NextPid \in Pids
    /\ process' = NextPid
    /\ procs' = [procs EXCEPT ![NextPid] = "new"]
    /\ Goto(t, "start106")
    /\ UNCHANGED <<log_queue, logs, emitted, delivered, marks, termCalls, joinCalls>>
    /\ UNCHANGED <<strategy_name, cpc, sent, runVars, fvgVars>>

\* start, lines 106-107: self.process.start(); Process.start() asserts that
\* the object was not started before.
start_run(t) ==
    /\ tpc[t] = "start106"
    /\ IF procs[process] = "new"
       THEN /\ procs' = [procs EXCEPT ![process] = "alive"]
            /\ cpc' = [cpc EXCEPT ![process] = "boot17"]
            /\ Return(t, "started")
       ELSE /\ UNCHANGED <<procs, cpc>>
            /\ Return(t, "exception")
    /\ strategy_name' = [strategy_name EXCEPT ![t] = "none"]
    /\ UNCHANGED <<process, log_queue, logs, emitted, delivered, marks, termCalls, joinCalls>>
    /\ UNCHANGED <<sent, runVars, fvgVars>>

\* stop_check with the liveness test of line 110 dropped (only `not self.process`).
stop_check_no_liveness(t) ==
    /\ tpc[t] = "stop110"
    /\ IF process = 0 THEN Return(t, "not_running")
       ELSE Goto(t, "stop113")
    /\ UNCHANGED <<process, procs, log_queue, logs, emitted, delivered, marks,
                   termCalls, joinCalls>>
    /\ UNCHANGED <<strategy_name, cpc, sent, runVars, fvgVars>>

\* stop, lines 110-111
stop_check(t) ==
    /\ tpc[t] = "stop110"
    /\ IF ~is_alive(process) THEN Return(t, "not_running")
       ELSE Goto(t, "stop113")
    /\ UNCHANGED <<process, procs, log_queue, logs, emitted, delivered, marks,
                   termCalls, joinCalls>>
    /\ UNCHANGED <<strategy_name, cpc, sent, runVars, fvgVars>>

\* stop, line 113: self.process.terminate() sends the signal; on an object
\* that was never started it raises, on an exited child it does nothing.
stop_terminate(t) ==
    /\ tpc[t] = "stop113"
    /\ IF procs[process] = "new"
       THEN /\ Return(t, "exception")
            /\ UNCHANGED <<procs, termCalls>>
       ELSE /\ procs' = [procs EXCEPT ![process] =
                            IF @ = "alive" THEN "terminating" ELSE @]
            /\ termCalls' = termCalls \cup {process}
            /\ Goto(t, "stop114")
    /\ UNCHANGED <<process, log_queue, logs, emitted, delivered, marks, joinCalls>>
    /\ UNCHANGED <<strategy_name, cpc, sent, runVars, fvgVars>>

\* stop_join without the wait of line 114: it returns while the child may still run.
stop_join_no_wait(t) ==
    /\ tpc[t] = "stop114"
    /\ procs[process] # "new"
    /\ joinCalls' = joinCalls \cup {process}
    /\ Return(t, "stopped")
    /\ UNCHANGED <<process, procs, log_queue, logs, emitted, delivered, marks, termCalls>>
    /\ UNCHANGED <<strategy_name, cpc, sent, runVars, fvgVars>>

\* stop, lines 114-115: self.process.join() blocks until the child has
\* exited; on an object that was never started it raises.
stop_join(t) ==
    /\ tpc[t] = "stop114"
    /\ \/ /\ procs[process] = "new"
          /\ Return(t, "exception")
          /\ UNCHANGED joinCalls
       \/ /\ procs[process] = "dead"
          /\ joinCalls' = joinCalls \cup {process}
          /\ Return(t, "stopped")
    /\ UNCHANGED <<process, procs, log_queue, logs, emitted, delivered, marks, termCalls>>
    /\ UNCHANGED <<strategy_name, cpc, sent, runVars, fvgVars>>

\* get_status, lines 118-120
get_status(t) ==
    /\ tpc[t] = "status118"
    /\ Return(t, get_status_value)
    /\ UNCHANGED <<process, procs, log_queue, logs, emitted, delivered, marks,
                   termCalls, joinCalls>>
    /\ UNCHANGED <<strategy_name, cpc, sent, runVars, fvgVars>>

\* get_logs, line 123: logs = []
get_logs_begin(t) ==
    /\ tpc[t] = "logs123"
    /\ logs' = [logs EXCEPT ![t] = <<>>]
    /\ Goto(t, "logs124")
    /\ UNCHANGED <<process, procs, log_queue, emitted, delivered, marks, termCalls, joinCalls>>
    /\ UNCHANGED <<strategy_name, cpc, sent, runVars, fvgVars>>

\* get_logs, lines 124 and 126: the loop test and the return
get_logs_test(t) ==
    /\ tpc[t] = "logs124"
    /\ IF log_queue # <<>>
       THEN /\ Goto(t, "logs125")
            /\ UNCHANGED <<delivered, marks>>
       ELSE /\ Return(t, "logs")
            /\ delivered' = delivered \o logs[t]
            /\ marks' = <<marks[2], emitted>>
    /\ UNCHANGED <<process, procs, log_queue, logs, emitted, termCalls, joinCalls>>
    /\ UNCHANGED <<strategy_name, cpc, sent, runVars, fvgVars>>

\* get_logs_get reading the head of the queue without removing it.
get_logs_peek(t) ==
    /\ tpc[t] = "logs125"
    /\ log_queue # <<>>
    /\ logs' = [logs EXCEPT ![t] = Append(@, Head(log_queue))]
    /\ Goto(t, "logs124")
    /\ UNCHANGED <<process, procs, log_queue, emitted, delivered, marks, termCalls, joinCalls>>
    /\ UNCHANGED <<strategy_name, cpc, sent, runVars, fvgVars>>

\* get_logs, line 125: logs.append(self.log_queue.get()); get() blocks on an
\* empty queue.
get_logs_get(t) ==
    /\ tpc[t] = "logs125"
    /\ log_queue # <<>>
    /\ logs' = [logs EXCEPT ![t] = Append(@, Head(log_queue))]
    /\ log_queue' = Tail(log_queue)
    /\ Goto(t, "logs124")
    /\ UNCHANGED <<process, procs, emitted, delivered, marks, termCalls, joinCalls>>
    /\ UNCHANGED <<strategy_name, cpc, sent, runVars, fvgVars>>

\* ---- run_strategy: the child process ----

\* log_queue.put(text) by child p.
Put(p, text) ==
    /\ emitted < MaxMsgs
    /\ emitted' = emitted + 1
    /\ log_queue' = Append(log_queue, emitted + 1)
    /\ sent' = Append(sent, [pid |-> p, text |-> text])

\* The ways lines 17-62 end: the broker is connected; the broker cannot be
\* initialised, BROKER_NAME being not set (lines 25-28) or the factory
\* returning None (lines 30-34); or a statement raises (import, configuration
\* key, connect: lines 82-83).  The outcome names the message that is put.
BootOutcomes == {"ok", "broker_error", "init_error"}

\* child_boot without the return of lines 28 and 34: the bootstrap goes on
\* after the error message.
child_boot_no_return(p, outcome) ==
    /\ procs[p] = "alive"
    /\ cpc[p] = "boot17"
    /\ cpc' = [cpc EXCEPT ![p] = "sleep63"]
    /\ IF outcome = "ok" THEN UNCHANGED <<emitted, log_queue, sent>> ELSE Put(p, outcome)
    /\ UNCHANGED <<process, procs, tpc, result, logs, delivered, marks, termCalls,
                   joinCalls, strategy_name>>
    /\ UNCHANGED <<runVars, fvgVars>>

\* run_strategy, lines 17-62: the bootstrap up to broker.connect_websocket().
child_boot(p, outcome) ==
    /\ procs[p] = "alive"
    /\ cpc[p] = "boot17"
    /\ IF outcome = "ok"
       THEN /\ cpc' = [cpc EXCEPT ![p] = "sleep63"]
            /\ UNCHANGED <<emitted, log_queue, sent>>
       ELSE /\ Put(p, outcome)
            /\ cpc' = [cpc EXCEPT ![p] = "return"]
    /\ UNCHANGED <<process, procs, tpc, result, logs, delivered, marks, termCalls,
                   joinCalls, strategy_name>>
    /\ UNCHANGED <<runVars, fvgVars>>

\* run_strategy, lines 63-65: the sleep and the construction of the strategy,
\* which enters the loop or raises (lines 82-83).
child_strategy_init(p, ok) ==
    /\ procs[p] = "alive"
    /\ cpc[p] = "sleep63"
    /\ IF ok
       THEN /\ cpc' = [cpc EXCEPT ![p] = "get69"]
            /\ UNCHANGED <<emitted, log_queue, sent>>
       ELSE /\ Put(p, "init_error")
            /\ cpc' = [cpc EXCEPT ![p] = "return"]
    /\ UNCHANGED <<process, procs, tpc, result, logs, delivered, marks, termCalls,
                   joinCalls, strategy_name>>
    /\ UNCHANGED <<runVars, fvgVars>>

\* ---- run_strategy: the feed callbacks and the loop of lines 67-80 ----

\* The payloads the feed passes to on_ticks: a tick has the keys 'symbol' and
\* 'last_price'; other payloads lack one of them.
Shapes == {[symbol |-> TRUE,  price |-> TRUE],
           [symbol |-> FALSE, price |-> TRUE],
           [symbol |-> TRUE,  price |-> FALSE]}

\* The events a notification carries: the next n events, of these shapes,
\* numbered in order of arrival; call is the number of the notification.
Events(p, shapes, call) ==
    [i \in 1..Len(shapes) |->
        [id |-> Len(arrivals[p]) + i, call |-> call,
         symbol |-> shapes[i].symbol, price |-> shapes[i].price]]

\* The notifications of one or of two events.
Notifications == {<<sh>> : sh \in Shapes} \cup {<<a, b>> : a \in Shapes, b \in Shapes}

Calls(p) == {arrivals[p][i].call : i \in 1..Len(arrivals[p])}

\* DataDispatcher.dispatch: every element of the batch is forwarded, in
\* order, to the registered queue.  An item of the queue is written as the
\* sequence of its elements: a dict is a sequence of one.
dispatch(queue, events) ==
    queue \o [i \in 1..Len(events) |-> <<events[i]>>]

\* on_ticks that passes on a single payload only: a list is dropped.
on_ticks_lists_dropped(p, ticks, isList) ==
    /\ procs[p] = "alive"
    /\ cpc[p] \in {"sleep63", "get69"}
    /\ Len(arrivals[p]) + Len(ticks) <= MaxTicks
    /\ isList \/ Len(ticks) = 1
    /\ arrivals' = [arrivals EXCEPT ![p] = @ \o ticks]
    /\ main_queue' = [main_queue EXCEPT ![p] =
                         IF ~isList /\ ticks[1].symbol THEN dispatch(@, ticks) ELSE @]
    /\ UNCHANGED <<handled, raised, conn>>
    /\ UNCHANGED <<mgrVars, fvgVars>>

\* on_ticks, lines 48-53: the feed thread of the child passes a list, or a
\* single payload, which is dispatched when it has the key 'symbol'.
on_ticks(p, ticks, isList) ==
    /\ procs[p] = "alive"
    /\ cpc[p] \in {"sleep63", "get69"}
    /\ Len(arrivals[p]) + Len(ticks) <= MaxTicks
    /\ isList \/ Len(ticks) = 1
    /\ arrivals' = [arrivals EXCEPT ![p] = @ \o ticks]
    /\ main_queue' = [main_queue EXCEPT ![p] =
                         IF isList \/ ticks[1].symbol THEN dispatch(@, ticks) ELSE @]
    /\ UNCHANGED <<handled, raised, conn>>
    /\ UNCHANGED <<mgrVars, fvgVars>>

\* on_connect that subscribes on the first notification only.
on_connect_once(p) ==
    /\ procs[p] = "alive"
    /\ cpc[p] \in {"sleep63", "get69"}
    /\ conn[p].connects < MaxConnects
    /\ conn' = [conn EXCEPT ![p] = [connects   |-> @.connects + 1,
                                    subscribes |-> IF @.subscribes = 0 THEN 1 ELSE @.subscribes]]
    /\ UNCHANGED <<main_queue, arrivals, handled, raised>>
    /\ UNCHANGED <<mgrVars, fvgVars>>

\* on_connect, lines 55-56: the feed has connected, or connected again, and
\* the child calls broker.symbols_to_subscribe([instrument_token]).
on_connect(p) ==
    /\ procs[p] = "alive"
    /\ cpc[p] \in {"sleep63", "get69"}
    /\ conn[p].connects < MaxConnects
    /\ conn' = [conn EXCEPT ![p] = [connects   |-> @.connects + 1,
                                    subscribes |-> @.subscribes + 1]]
    /\ UNCHANGED <<main_queue, arrivals, handled, raised>>
    /\ UNCHANGED <<mgrVars, fvgVars>>

\* on_order_update that also passes the update to the dispatcher.
on_order_update_dispatched(p) ==
    /\ procs[p] = "alive"
    /\ cpc[p] \in {"sleep63", "get69"}
    /\ Put(p, "order_update")
    /\ main_queue' = [main_queue EXCEPT ![p] =
                         dispatch(@, <<[id |-> 0, call |-> 0, symbol |-> TRUE, price |-> FALSE]>>)]
    /\ UNCHANGED <<process, procs, tpc, result, logs, delivered, marks, termCalls,
                   joinCalls, strategy_name, cpc>>
    /\ UNCHANGED <<arrivals, handled, raised, conn, fvgVars>>

\* on_order_update, lines 58-59: the order stream pushes an update and the
\* child puts one message on the log queue.
on_order_update(p) ==
    /\ procs[p] = "alive"
    /\ cpc[p] \in {"sleep63", "get69"}
    /\ Put(p, "order_update")
    /\ UNCHANGED <<process, procs, tpc, result, logs, delivered, marks, termCalls,
                   joinCalls, strategy_name, cpc>>
    /\ UNCHANGED <<runVars, fvgVars>>

\* loop_iteration without the handler of lines 79-80: the exception reaches
\* the handler of lines 82-83 and run_strategy returns.
loop_iteration_uncaught(p, exc) ==
    /\ procs[p] = "alive"
    /\ cpc[p] = "get69"
    /\ main_queue[p] # <<>>
    /\ LET tick_data   == Head(main_queue[p])
           symbol_data == Head(tick_data)
       IN  handled' = [handled EXCEPT ![p] =
                          IF symbol_data.price THEN Append(@, symbol_data) ELSE @]
    /\ main_queue' = [main_queue EXCEPT ![p] = Tail(@)]
    /\ IF exc
       THEN /\ raised' = [raised EXCEPT ![p] = @ + 1]
            /\ Put(p, "init_error")
            /\ cpc' = [cpc EXCEPT ![p] = "return"]
       ELSE UNCHANGED <<raised, emitted, log_queue, sent, cpc>>
    /\ UNCHANGED <<process, procs, tpc, result, logs, delivered, marks, termCalls,
                   joinCalls, strategy_name>>
    /\ UNCHANGED <<arrivals, conn, fvgVars>>

\* run_strategy, lines 68-80: one iteration of the loop.  get() blocks on an
\* empty queue; of a list the first element is taken (lines 70-71); the
\* handler is called for a dict with the key 'last_price' (lines 75-76); an
\* exception (exc) is reported on the log queue and the loop goes on.
loop_iteration(p, exc) ==
    /\ procs[p] = "alive"
    /\ cpc[p] = "get69"
    /\ main_queue[p] # <<>>
    /\ LET tick_data   == Head(main_queue[p])
           symbol_data == Head(tick_data)
       IN  handled' = [handled EXCEPT ![p] =
                          IF symbol_data.price THEN Append(@, symbol_data) ELSE @]
    /\ main_queue' = [main_queue EXCEPT ![p] = Tail(@)]
    /\ IF exc
       THEN /\ raised' = [raised EXCEPT ![p] = @ + 1]
            /\ Put(p, "loop_error")
       ELSE UNCHANGED <<raised, emitted, log_queue, sent>>
    /\ UNCHANGED <<process, procs, tpc, result, logs, delivered, marks, termCalls,
                   joinCalls, strategy_name, cpc>>
    /\ UNCHANGED <<arrivals, conn, fvgVars>>

\* A put of the connected child, the event that causes it left out: an order
\* update (line 59) or an error of the loop (line 80).
child_put(p) ==
    /\ procs[p] \in {"alive", "terminating"}
    /\ cpc[p] \in {"sleep63", "get69"}
    /\ Put(p, "log")
    /\ UNCHANGED <<process, procs, tpc, result, logs, delivered, marks, termCalls, joinCalls>>
    /\ UNCHANGED <<strategy_name, cpc, runVars, fvgVars>>

\* run_strategy, lines 77-78: KeyboardInterrupt reaches the loop.
child_interrupt(p) ==
    /\ procs[p] = "alive"
    /\ cpc[p] = "get69"
    /\ cpc' = [cpc EXCEPT ![p] = "break78"]
    /\ UNCHANGED <<process, procs, log_queue, tpc, result, logs, emitted, delivered, marks,
                   termCalls, joinCalls, strategy_name, sent>>
    /\ UNCHANGED <<runVars, fvgVars>>

\* run_strategy returns (lines 28, 34, 83, or the end after the break) and
\* the child exits.
child_exit(p) ==
    /\ procs[p] = "alive"
    /\ cpc[p] \in {"return", "break78"}
    /\ procs' = [procs EXCEPT ![p] = "dead"]
    /\ cpc' = [cpc EXCEPT ![p] = "done"]
    /\ UNCHANGED <<process, log_queue, tpc, result, logs, emitted, delivered, marks,
                   termCalls, joinCalls, strategy_name, sent>>
    /\ UNCHANGED <<runVars, fvgVars>>

\* The terminated child exits.
child_killed(p) ==
    /\ procs[p] = "terminating"
    /\ procs' = [procs EXCEPT ![p] = "dead"]
    /\ cpc' = [cpc EXCEPT ![p] = "done"]
    /\ UNCHANGED <<process, log_queue, tpc, result, logs, emitted, delivered, marks,
                   termCalls, joinCalls, strategy_name, sent>>
    /\ UNCHANGED <<runVars, fvgVars>>

CallStart(t)  ==
    \E name \in StrategyNames :
        /\ Invoke(t, "start92")
        /\ strategy_name' = [strategy_name EXCEPT ![t] = name]
CallStop(t)   == Invoke(t, "stop110") /\ UNCHANGED strategy_name
CallStatus(t) == Invoke(t, "status118") /\ UNCHANGED strategy_name
CallLogs(t)   == Invoke(t, "logs123") /\ UNCHANGED strategy_name

\* The steps of the child processes.
ChildStep ==
    \/ \E p \in Pids : \E outcome \in BootOutcomes : child_boot(p, outcome)
    \/ \E p \in Pids : \E ok \in BOOLEAN : child_strategy_init(p, ok)
    \/ \E p \in Pids : child_put(p)
    \/ \E p \in Pids : child_interrupt(p)
    \/ \E p \in Pids : child_exit(p)
    \/ \E p \in Pids : child_killed(p)

\* The steps of start and stop.
StartStopStep ==
    \/ \E t \in Threads : start_check(t, config_exists(strategy_name[t]))
    \/ \E t \in Threads : start_create(t)
    \/ \E t \in Threads : start_run(t)
    \/ \E t \in Threads : stop_check(t)
    \/ \E t \in Threads : stop_terminate(t)
    \/ \E t \in Threads : stop_join(t)

\* The steps of get_status and get_logs.
QueryStep ==
    \/ \E t \in Threads : get_status(t)
    \/ \E t \in Threads : get_logs_begin(t)
    \/ \E t \in Threads : get_logs_test(t)
    \/ \E t \in Threads : get_logs_get(t)

MgrStep ==
    \/ StartStopStep
    \/ QueryStep
    \/ ChildStep

MgrCall(t) == CallStart(t) \/ CallStop(t) \/ CallStatus(t) \/ CallLogs(t)

\* start and stop calls of any threads, overlapping in time.
MgrNext ==
    \/ \E t \in Threads : CallStart(t)
    \/ \E t \in Threads : CallStop(t)
    \/ StartStopStep
    \/ ChildStep

\* Calls one after the other: every call is made by the one thread 1, so a
\* call begins only when the call before it has returned.
MgrSeqNext ==
    \/ MgrCall(1)
    \/ MgrStep

----------------------------------------------------------------------------
\* FVGStrategy and the broker gateway

\* The symbols a configuration may name.
AllSymbols == {"NSE:A", "NSE:B"}

\* The values quote.last_price takes: on, beyond and short of the midpoints.
Quotes == {95, 103, 105, 106}

\* The candles a signal is drawn from: for LONG the high of the last candle
\* and the low of the one before, for SHORT the low and the high.
Candles == [LONG  |-> [entry |-> 100, stop |-> 95],
            SHORT |-> [entry |-> 100, stop |-> 105]]

\* check_long_entry_conditions, lines 117-119, and
\* check_short_entry_conditions, lines 129-131
entry_levels(type) ==
    LET entry_price == Candles[type].entry
        stop_loss   == Candles[type].stop
    IN  [entry_price |-> entry_price,
         stop_loss   |-> stop_loss,
         target      |-> IF type = "LONG"
                         THEN entry_price + 2 * (entry_price - stop_loss)
                         ELSE entry_price - 2 * (stop_loss - entry_price)]

\* A symbol without a key in self.positions; an order-id field of 0 is a key
\* the position dict does not have.
NoPos == [status |-> "NONE", type |-> "NONE", entry_price |-> 0, stop_loss |-> 0,
          target |-> 0, order_id |-> 0, sl_order_id |-> 0, target_order_id |-> 0]

Closed == {"CLOSED_SL", "CLOSED_TARGET"}

\* ---- BrokerGateway: the capabilities of the gateway the strategy uses ----

\* place_order: the request enters the book as PENDING with a fresh id, or
\* the gateway rejects it (ok = FALSE) and no id is returned.  `by` records
\* the caller of the request.
place_order(kind, sym, type, price, ok, by) ==
    Append(orders, [kind |-> kind, sym |-> sym, price |-> price,
                    side |-> IF (kind = "ENTRY") = (type = "LONG") THEN "BUY" ELSE "SELL",
                    status |-> IF ok THEN "PENDING" ELSE "REJECTED",
                    by |-> by])

\* cancel_order: cancels a pending order; on a filled or cancelled order it
\* does nothing.
cancel_order(book, id) ==
    [book EXCEPT ![id].status = IF @ = "PENDING" THEN "CANCELLED" ELSE @]

get_order_status(id) == orders[id].status

\* The market fills a pending order.
broker_fill(o) ==
    /\ o \in 1..Len(orders)
    /\ orders[o].status = "PENDING"
    /\ orders' = [orders EXCEPT ![o].status = "FILLED"]
    /\ UNCHANGED <<symbols, positions, posOrder, fpc, idx, ret, cycle, quote, hist, snap>>
    /\ UNCHANGED <<mgrVars, runVars>>

\* ---- FVGStrategy ----

NoSnap == [open |-> FALSE, sl |-> 0, tgt |-> 0, slFilled |-> FALSE, tgtFilled |-> FALSE]

\* What the broker holds for the exit orders of the positions that are OPEN.
Snapshot ==
    [sym \in DOMAIN positions |->
        LET pos == positions[sym] IN
        IF pos.status = "OPEN"
        THEN [open |-> TRUE, sl |-> pos.sl_order_id, tgt |-> pos.target_order_id,
              slFilled  |-> pos.sl_order_id # 0
                            /\ get_order_status(pos.sl_order_id) = "FILLED",
              tgtFilled |-> pos.target_order_id # 0
                            /\ get_order_status(pos.target_order_id) = "FILLED"]
        ELSE NoSnap]

\* FVGStrategy.__init__, lines 17-26, for the configured symbols syms.
FvgInit(syms) ==
    /\ symbols = syms
    /\ positions = [sym \in AllSymbols |-> NoPos]
    /\ posOrder = <<>>
    /\ orders = <<>>
    /\ fpc = "co44"
    /\ idx = 1
    /\ ret = "none"
    /\ cycle = 1
    /\ quote = 0
    /\ hist = [sym \in AllSymbols |-> [be |-> 0, opened |-> 0, steps |-> <<>>]]
    /\ snap = [sym \in AllSymbols |-> NoSnap]

\* The uncaught exception leaves run().
Crash == fpc' = "crashed"

\* A status poll or a quote poll of the gateway raises (get_order_status at
\* lines 46, 197 and 203, get_quote at lines 179 and 214): run, lines 28-41,
\* has no handler, so the exception leaves the loop.
poll_raises ==
    /\ \/ /\ fpc = "co44"
          /\ idx <= Len(posOrder)
          /\ positions[posOrder[idx]].status = "PENDING_ENTRY"
       \/ fpc = "mp179"
       \/ fpc = "mp197" /\ positions[posOrder[idx]].sl_order_id # 0
       \/ fpc = "mp203" /\ positions[posOrder[idx]].target_order_id # 0
       \/ fpc = "dt209" /\ posOrder # <<>>
    /\ fpc' = "poll_crashed"
    /\ UNCHANGED <<symbols, positions, posOrder, orders, idx, ret, cycle, quote, hist, snap>>
    /\ UNCHANGED <<mgrVars, runVars>>

\* entry_filled without the comparison of line 47: any polled status opens.
entry_filled_unpolled(pos) ==
    pos.status = "PENDING_ENTRY"

\* entry_filled without the status test of line 45.
entry_filled_any_status(pos) ==
    pos.status # "NONE" /\ get_order_status(pos.order_id) = "FILLED"

\* check_open_orders, lines 45-47: the position waits for its entry and the
\* polled status of the entry order is FILLED.
entry_filled(pos) ==
    pos.status = "PENDING_ENTRY" /\ get_order_status(pos.order_id) = "FILLED"

\* check_open_orders, lines 44-49: one iteration of the loop.
check_open_orders ==
    /\ fpc = "co44"
    /\ IF idx > Len(posOrder)
       THEN /\ fpc' = "at87"
            /\ idx' = 1
            /\ UNCHANGED <<positions, ret, hist>>
       ELSE LET sym == posOrder[idx] IN
            IF entry_filled(positions[sym])
            THEN /\ positions' = [positions EXCEPT ![sym].status = "OPEN"]
                 /\ hist' = [hist EXCEPT ![sym].opened = cycle]
                 /\ fpc' = "pe63"
                 /\ ret' = "co"
                 /\ UNCHANGED idx
            ELSE /\ idx' = idx + 1
                 /\ UNCHANGED <<positions, fpc, ret, hist>>
    /\ UNCHANGED <<symbols, posOrder, orders, cycle, quote, snap>>
    /\ UNCHANGED <<mgrVars, runVars>>

\* place_exit_sl without the test of line 64: the id field is written whatever
\* the response.
place_exit_sl_unchecked(ok) ==
    /\ fpc = "pe63"
    /\ LET sym == posOrder[idx]
           pos == positions[sym] IN
       /\ orders' = place_order("STOP", sym, pos.type, pos.stop_loss, ok, ret)
       /\ positions' = [positions EXCEPT ![sym].sl_order_id = Len(orders) + 1]
    /\ fpc' = "pe77"
    /\ UNCHANGED <<symbols, posOrder, idx, ret, cycle, quote, hist, snap>>
    /\ UNCHANGED <<mgrVars, runVars>>

\* place_exit_orders, lines 53-65: the stop order at stop_loss.
place_exit_sl(ok) ==
    /\ fpc = "pe63"
    /\ LET sym == posOrder[idx]
           pos == positions[sym] IN
       /\ orders' = place_order("STOP", sym, pos.type, pos.stop_loss, ok, ret)
       /\ positions' = IF ok
                       THEN [positions EXCEPT ![sym].sl_order_id = Len(orders) + 1]
                       ELSE positions
    /\ fpc' = "pe77"
    /\ UNCHANGED <<symbols, posOrder, idx, ret, cycle, quote, hist, snap>>
    /\ UNCHANGED <<mgrVars, runVars>>

\* place_exit_orders, lines 67-79: the limit order at target, and the return
\* to the caller.
place_exit_target(ok) ==
    /\ fpc = "pe77"
    /\ LET sym == posOrder[idx]
           pos == positions[sym] IN
       /\ orders' = place_order("LIMIT", sym, pos.type, pos.target, ok, ret)
       /\ positions' = IF ok
                       THEN [positions EXCEPT ![sym].target_order_id = Len(orders) + 1]
                       ELSE positions
    /\ IF ret = "co"
       THEN fpc' = "co44" /\ idx' = idx + 1
       ELSE fpc' = "mp197" /\ UNCHANGED idx
    /\ ret' = "none"
    /\ UNCHANGED <<symbols, posOrder, cycle, quote, hist, snap>>
    /\ UNCHANGED <<mgrVars, runVars>>

\* acknowledged without the test of line 161: every response counts as 'ok'.
acknowledged_always(ok) == TRUE

\* _place_order, line 161: if resp.status == "ok"
acknowledged(ok) == ok

\* tracked without the membership test of line 88.
tracked_never(sym) == FALSE

\* analyze_and_trade, line 88: symbol in self.positions
tracked(sym) == positions[sym].status # "NONE"

\* analyze_and_trade, lines 87-104, with check_long_entry_conditions,
\* check_short_entry_conditions and _place_order (lines 146-174): one
\* iteration of the loop.  sig is what the candles of the symbol signal
\* ("NONE" also stands for an empty history and for a caught exception); a
\* candle whose low is above the high two candles back (line 114) cannot have
\* its high below the low two candles back (line 126), so the long and the
\* short conditions never hold together.
analyze_and_trade(sig, ok) ==
    /\ fpc = "at87"
    /\ IF idx > Len(symbols)
       THEN /\ fpc' = "mp178"
            /\ idx' = 1
            /\ UNCHANGED <<positions, posOrder, orders>>
       ELSE LET sym == symbols[idx]
                lv  == entry_levels(sig) IN
            /\ idx' = idx + 1
            /\ UNCHANGED fpc
            /\ IF tracked(sym) \/ sig = "NONE"
               THEN UNCHANGED <<positions, posOrder, orders>>
               ELSE /\ orders' = place_order("ENTRY", sym, sig, lv.entry_price, ok, "at")
                    /\ IF acknowledged(ok)
                       THEN /\ positions' = [positions EXCEPT ![sym] =
                                   [status |-> "PENDING_ENTRY", type |-> sig,
                                    entry_price |-> lv.entry_price,
                                    stop_loss |-> lv.stop_loss,
                                    target |-> lv.target,
                                    order_id |-> Len(orders) + 1,
                                    sl_order_id |-> 0, target_order_id |-> 0]]
                            /\ posOrder' = Append(posOrder, sym)
                       ELSE UNCHANGED <<positions, posOrder>>
    /\ UNCHANGED <<symbols, ret, cycle, quote, hist, snap>>
    /\ UNCHANGED <<mgrVars, runVars>>

\* manage_positions, lines 177-178: the next position of the loop.
manage_positions ==
    /\ fpc = "mp178"
    /\ IF idx > Len(posOrder)
       THEN fpc' = "dt209" /\ idx' = 1
       ELSE IF positions[posOrder[idx]].status = "OPEN"
            THEN fpc' = "mp179" /\ UNCHANGED idx
            ELSE idx' = idx + 1 /\ UNCHANGED fpc
    /\ UNCHANGED <<symbols, positions, posOrder, orders, ret, cycle, quote, hist, snap>>
    /\ UNCHANGED <<mgrVars, runVars>>

\* manage_positions, line 179: quote = self.broker.get_quote(symbol)
manage_get_quote(q) ==
    /\ fpc = "mp179"
    /\ quote' = q
    /\ fpc' = "mp180"
    /\ UNCHANGED <<symbols, positions, posOrder, orders, idx, ret, cycle, hist, snap>>
    /\ UNCHANGED <<mgrVars, runVars>>

\* breakeven_due without the stop tests of lines 182 and 190.
breakeven_due_unguarded(pos, q) ==
    IF pos.type = "LONG"
    THEN 2 * q >= 2 * pos.entry_price + (pos.target - pos.entry_price)
    ELSE 2 * q <= 2 * pos.entry_price - (pos.entry_price - pos.target)

\* breakeven_due with strict comparisons of the quote in lines 181 and 189.
breakeven_due_strict(pos, q) ==
    IF pos.type = "LONG"
    THEN /\ 2 * q > 2 * pos.entry_price + (pos.target - pos.entry_price)
         /\ pos.stop_loss < pos.entry_price
    ELSE /\ 2 * q < 2 * pos.entry_price - (pos.entry_price - pos.target)
         /\ pos.stop_loss > pos.entry_price

\* manage_positions, lines 180-182 and 188-190: the quote is at least half
\* the way from entry to target and the stop is still on the losing side of
\* the entry.  The division by 2 is exact: both sides are doubled.
breakeven_due(pos, q) ==
    IF pos.type = "LONG"
    THEN /\ 2 * q >= 2 * pos.entry_price + (pos.target - pos.entry_price)
         /\ pos.stop_loss < pos.entry_price
    ELSE /\ 2 * q <= 2 * pos.entry_price - (pos.entry_price - pos.target)
         /\ pos.stop_loss > pos.entry_price

manage_breakeven_test ==
    /\ fpc = "mp180"
    /\ IF breakeven_due(positions[posOrder[idx]], quote)
       THEN fpc' = "mp183"
       ELSE fpc' = "mp197"
    /\ hist' = [hist EXCEPT ![posOrder[idx]].steps = Append(@, "breakeven_check")]
    /\ UNCHANGED <<symbols, positions, posOrder, orders, idx, ret, cycle, quote, snap>>
    /\ UNCHANGED <<mgrVars, runVars>>

\* manage_breakeven without the place_exit_orders call of lines 186 and 194.
manage_breakeven_no_replace ==
    /\ fpc = "mp183"
    /\ LET sym == posOrder[idx]
           pos == positions[sym] IN
       IF pos.sl_order_id = 0 \/ pos.target_order_id = 0
       THEN /\ Crash
            /\ UNCHANGED <<positions, orders, hist>>
       ELSE /\ orders' = cancel_order(cancel_order(orders, pos.sl_order_id),
                                      pos.target_order_id)
            /\ positions' = [positions EXCEPT ![sym].stop_loss = pos.entry_price]
            /\ hist' = [hist EXCEPT ![sym].be = @ + 1]
            /\ fpc' = "mp197"
    /\ UNCHANGED <<symbols, posOrder, idx, ret, cycle, quote, snap>>
    /\ UNCHANGED <<mgrVars, runVars>>

\* manage_breakeven without the cancel calls of lines 184-185 and 192-193.
manage_breakeven_no_cancel ==
    /\ fpc = "mp183"
    /\ LET sym == posOrder[idx]
           pos == positions[sym] IN
       IF pos.sl_order_id = 0 \/ pos.target_order_id = 0
       THEN /\ Crash
            /\ UNCHANGED <<positions, orders, ret, hist>>
       ELSE /\ positions' = [positions EXCEPT ![sym].stop_loss = pos.entry_price]
            /\ hist' = [hist EXCEPT ![sym].be = @ + 1]
            /\ fpc' = "pe63"
            /\ ret' = "mp"
            /\ UNCHANGED orders
    /\ UNCHANGED <<symbols, posOrder, idx, cycle, quote, snap>>
    /\ UNCHANGED <<mgrVars, runVars>>

\* manage_positions, lines 183-186 and 191-194: cancel both exit orders, move
\* the stop to the entry price and call place_exit_orders.  Reading an
\* order-id key the dict does not have raises KeyError.
manage_breakeven ==
    /\ fpc = "mp183"
    /\ LET sym == posOrder[idx]
           pos == positions[sym] IN
       IF pos.sl_order_id = 0
       THEN /\ Crash
            /\ UNCHANGED <<positions, orders, ret, hist>>
       ELSE IF pos.target_order_id = 0
       THEN /\ orders' = cancel_order(orders, pos.sl_order_id)
            /\ Crash
            /\ UNCHANGED <<positions, ret, hist>>
       ELSE /\ orders' = cancel_order(cancel_order(orders, pos.sl_order_id),
                                      pos.target_order_id)
            /\ positions' = [positions EXCEPT ![sym].stop_loss = pos.entry_price]
            /\ hist' = [hist EXCEPT ![sym].be = @ + 1]
            /\ fpc' = "pe63"
            /\ ret' = "mp"
    /\ UNCHANGED <<symbols, posOrder, idx, cycle, quote, snap>>
    /\ UNCHANGED <<mgrVars, runVars>>

\* manage_positions, lines 197-201: the poll of the stop order.
manage_sl_poll ==
    /\ fpc = "mp197"
    /\ LET sym == posOrder[idx]
           pos == positions[sym] IN
       /\ IF pos.sl_order_id = 0
          THEN Crash /\ UNCHANGED <<positions, orders>>
          ELSE IF get_order_status(pos.sl_order_id) = "FILLED"
          THEN IF pos.target_order_id = 0
               THEN Crash /\ UNCHANGED <<positions, orders>>
               ELSE /\ orders' = cancel_order(orders, pos.target_order_id)
                    /\ positions' = [positions EXCEPT ![sym].status = "CLOSED_SL"]
                    /\ fpc' = "mp203"
          ELSE fpc' = "mp203" /\ UNCHANGED <<positions, orders>>
       /\ hist' = IF pos.sl_order_id = 0 THEN hist
                  ELSE [hist EXCEPT ![sym].steps = Append(@, "stop_poll")]
    /\ UNCHANGED <<symbols, posOrder, idx, ret, cycle, quote, snap>>
    /\ UNCHANGED <<mgrVars, runVars>>

\* manage_positions, lines 203-207: the poll of the target order, and the
\* end of the iteration.
manage_target_poll ==
    /\ fpc = "mp203"
    /\ LET sym == posOrder[idx]
           pos == positions[sym] IN
       IF pos.target_order_id = 0
       THEN Crash /\ UNCHANGED <<positions, orders, idx, quote, hist>>
       ELSE /\ IF get_order_status(pos.target_order_id) = "FILLED"
               THEN /\ orders' = cancel_order(orders, pos.sl_order_id)
                    /\ positions' = [positions EXCEPT ![sym].status = "CLOSED_TARGET"]
               ELSE UNCHANGED <<positions, orders>>
            /\ hist' = [hist EXCEPT ![sym].steps = Append(@, "target_poll")]
            /\ fpc' = "mp178"
            /\ idx' = idx + 1
            /\ quote' = 0
    /\ UNCHANGED <<symbols, posOrder, ret, cycle, snap>>
    /\ UNCHANGED <<mgrVars, runVars>>

\* display_table, lines 209-242, and run, lines 39-41 and 31-32: the table
\* is printed, the loop sleeps to the next period and the next cycle begins.
display_table ==
    /\ fpc = "dt209"
    /\ cycle < MaxCycles
    /\ cycle' = cycle + 1
    /\ fpc' = "co44"
    /\ idx' = 1
    /\ snap' = Snapshot
    /\ hist' = [sym \in AllSymbols |-> [hist[sym] EXCEPT !.steps = <<>>]]
    /\ UNCHANGED <<symbols, positions, posOrder, orders, ret, quote>>
    /\ UNCHANGED <<mgrVars, runVars>>

FvgStep ==
    \/ check_open_orders
    \/ \E ok \in BOOLEAN : place_exit_sl(ok)
    \/ \E ok \in BOOLEAN : place_exit_target(ok)
    \/ \E sig \in {"NONE", "LONG", "SHORT"} : \E ok \in BOOLEAN : analyze_and_trade(sig, ok)
    \/ manage_positions
    \/ \E q \in Quotes : manage_get_quote(q)
    \/ manage_breakeven_test
    \/ manage_breakeven
    \/ manage_sl_poll
    \/ manage_target_poll
    \/ display_table
    \/ poll_raises
    \/ \E o \in 1..Len(orders) : broker_fill(o)

----------------------------------------------------------------------------
\* Specifications

\* The manager, with a strategy configured for one symbol.
Init == MgrInit /\ FvgInit(<<"NSE:A">>)

FvgNext == FvgStep

\* One child, as start leaves it: the manager has spawned process 1 and its
\* start call has returned.
RunInit ==
    /\ process = 1
    /\ procs = [p \in Pids |-> IF p = 1 THEN "alive" ELSE "none"]
    /\ cpc = [p \in Pids |-> IF p = 1 THEN "boot17" ELSE "none"]
    /\ log_queue = <<>>
    /\ tpc = [t \in Threads |-> "idle"]
    /\ result = [t \in Threads |-> IF t = 1 THEN "started" ELSE "none"]
    /\ logs = [t \in Threads |-> <<>>]
    /\ emitted = 0
    /\ delivered = <<>>
    /\ marks = <<0, 0>>
    /\ termCalls = {}
    /\ joinCalls = {}
    /\ strategy_name = [t \in Threads |-> "none"]
    /\ sent = <<>>
    /\ main_queue = [p \in Pids |-> <<>>]
    /\ arrivals = [p \in Pids |-> <<>>]
    /\ handled = [p \in Pids |-> <<>>]
    /\ raised = [p \in Pids |-> 0]
    /\ conn = [p \in Pids |-> [connects |-> 0, subscribes |-> 0]]
    /\ FvgInit(<<"NSE:A">>)

\* The child process on its own: the bootstrap, the feed and the loop.
RunNext ==
    \/ \E p \in Pids : \E outcome \in BootOutcomes : child_boot(p, outcome)
    \/ \E p \in Pids : \E ok \in BOOLEAN : child_strategy_init(p, ok)
    \/ \E p \in Pids : \E shapes \in Notifications : \E isList \in BOOLEAN :
          on_ticks(p, Events(p, shapes, Cardinality(Calls(p)) + 1), isList)
    \/ \E p \in Pids : \E exc \in BOOLEAN : loop_iteration(p, exc)
    \/ \E p \in Pids : child_interrupt(p)
    \/ \E p \in Pids : child_exit(p)

\* The child process with the notifications of both streams: connects,
\* order updates, and ticks that arrive one by one and are handled without
\* an exception.
FeedNext ==
    \/ \E p \in Pids : \E outcome \in BootOutcomes : child_boot(p, outcome)
    \/ \E p \in Pids : \E ok \in BOOLEAN : child_strategy_init(p, ok)
    \/ \E p \in Pids : on_connect(p)
    \/ \E p \in Pids : on_order_update(p)
    \/ \E p \in Pids :
          on_ticks(p, Events(p, <<[symbol |-> TRUE, price |-> TRUE]>>,
                             Cardinality(Calls(p)) + 1), FALSE)
    \/ \E p \in Pids : loop_iteration(p, FALSE)
    \/ \E p \in Pids : child_interrupt(p)
    \/ \E p \in Pids : child_exit(p)

SpecRun    == RunInit /\ [][RunNext]_vars
SpecFeed   == RunInit /\ [][FeedNext]_vars
SpecMgr    == Init /\ [][MgrNext]_vars
SpecMgrSeq == Init /\ [][MgrSeqNext]_vars
SpecFvg    == Init /\ [][FvgNext]_vars

----------------------------------------------------------------------------
\* Claims about StrategyManager

\* C1: whatever the interleaving of start and stop calls on one manager,
\* calls that overlap in time included, at most one spawned process is alive
\* at any moment.
C1_AtMostOneProcessAlive == Cardinality(AliveProcs) <= 1

\* C2: a stop whose test of line 110 finds no process alive (never started,
\* already stopped, or the child exited on its own) returns "not running",
\* calls neither terminate nor join and changes nothing of the manager.
C2_StopIdleIsNoop ==
    [][\A t \in Threads :
         (tpc[t] = "stop110" /\ tpc'[t] # "stop110" /\ ~is_alive(process)) =>
            /\ tpc'[t] = "idle"
            /\ result'[t] = "not_running"
            /\ process' = process
            /\ procs' = procs
            /\ log_queue' = log_queue
            /\ termCalls' = termCalls
            /\ joinCalls' = joinCalls]_vars

\* The child exited on its own and a later stop returned "not running".
C2_Witness ==
    \E t \in Threads :
        /\ tpc[t] = "idle" /\ result[t] = "not_running"
        /\ process # 0 /\ procs[process] = "dead" /\ process \notin termCalls

\* C3: a stop that finds the process alive goes on to terminate it, and it
\* returns "stopped" only once the child has exited: in the state right
\* after the return the process is not alive and get_status gives "Stopped".
C3_StopTerminatesAndWaits ==
    [][\A t \in Threads :
         /\ (tpc[t] = "stop110" /\ tpc'[t] # "stop110" /\ is_alive(process)) =>
                tpc'[t] = "stop113"
         /\ (tpc[t] = "stop113" /\ tpc'[t] # "stop113") =>
                (tpc'[t] = "stop114" /\ process \in termCalls')
         /\ (tpc[t] = "stop114" /\ tpc'[t] # "stop114") =>
                /\ result'[t] = "stopped"
                /\ process' = process
                /\ process \in termCalls
                /\ procs'[process] = "dead"
                /\ get_status_value' = "Stopped"]_vars

\* A stop of a running child has returned "stopped".
C3_Witness ==
    \E t \in Threads :
        /\ tpc[t] = "idle" /\ result[t] = "stopped"
        /\ process \in termCalls /\ process \in joinCalls

\* The messages of the get_logs call in progress, if any.
LogsInProgress ==
    IF \E t \in Threads : tpc[t] \in {"logs124", "logs125"}
    THEN logs[CHOOSE t \in Threads : tpc[t] \in {"logs124", "logs125"}]
    ELSE <<>>

\* C4: over calls of get_logs made one after the other while the children
\* put messages, every message put is returned by exactly one call, in the
\* order of the puts, none twice and none lost (it is returned, or in the
\* list of the call in progress, or still queued), and the list a call
\* returns holds only messages put after the return of the call before it,
\* so it is empty when there was no new message.
C4_LogsReturnedExactlyOnce ==
    /\ delivered \o LogsInProgress \o log_queue = [i \in 1..emitted |-> i]
    /\ \A t \in Threads :
         (tpc[t] = "idle" /\ result[t] = "logs") =>
            \A i \in 1..Len(logs[t]) : logs[t][i] > marks[1]

\* A call returned messages and the call after it, with nothing new put,
\* returned the empty list.
C4_Witness ==
    \E t \in Threads :
        /\ tpc[t] = "idle" /\ result[t] = "logs"
        /\ logs[t] = <<>> /\ delivered # <<>>
        /\ marks[1] = marks[2] /\ marks[2] = emitted

----------------------------------------------------------------------------
\* Claims about FVGStrategy

\* The stop and limit placements requested for sym, as <<kind, price>>, in
\* the order of the requests: all of them, and those of one caller.
Exits(sym) ==
    LET sel == SelectSeq(orders, LAMBDA o : o.sym = sym /\ o.kind \in {"STOP", "LIMIT"})
    IN  [i \in 1..Len(sel) |-> <<sel[i].kind, sel[i].price>>]

ExitsBy(sym, by) ==
    LET sel == SelectSeq(orders, LAMBDA o : o.sym = sym /\ o.kind \in {"STOP", "LIMIT"}
                                            /\ o.by = by)
    IN  [i \in 1..Len(sel) |-> <<sel[i].kind, sel[i].price>>]

\* The position the running loop iteration works on.
Current(sym) ==
    /\ fpc \in {"pe63", "pe77", "mp179", "mp180", "mp183", "mp197", "mp203"}
    /\ idx \in 1..Len(posOrder)
    /\ posOrder[idx] = sym

\* The two exit placements a filled entry calls for.
FirstExits(pos) ==
    <<<<"STOP", entry_levels(pos.type).stop_loss>>, <<"LIMIT", pos.target>>>>

\* C5 as amended: a position in PENDING_ENTRY has no exit placement and
\* leaves PENDING_ENTRY only for OPEN, in the check_open_orders iteration
\* that polls its entry order FILLED; that iteration does move it to OPEN,
\* and the check_open_orders pass issues for it exactly one stop placement at
\* stop_loss followed by exactly one limit placement at target.
C5_EntryFillPlacesExitsOnce ==
    [][\A sym \in AllSymbols :
         LET pos  == positions[sym]
             posN == positions'[sym]
             polled == /\ fpc = "co44" /\ idx \in 1..Len(posOrder) /\ posOrder[idx] = sym
                       /\ (fpc' # fpc \/ idx' # idx)
                       /\ fpc' # "poll_crashed"
         IN
         /\ (polled /\ pos.status = "PENDING_ENTRY") =>
                IF get_order_status(pos.order_id) = "FILLED"
                THEN posN.status = "OPEN" /\ hist'[sym].opened = cycle /\ fpc' = "pe63"
                ELSE posN.status = "PENDING_ENTRY" /\ orders' = orders
         /\ (pos.status = "PENDING_ENTRY" /\ posN.status # "PENDING_ENTRY") => polled
         /\ posN.status \in {"NONE", "PENDING_ENTRY"} => Exits(sym)' = <<>>
         /\ posN.status \in {"OPEN"} \cup Closed =>
                ExitsBy(sym, "co")' =
                    IF ret' = "co" /\ Current(sym)'
                    THEN IF fpc' = "pe63" THEN <<>> ELSE SubSeq(FirstExits(posN), 1, 1)
                    ELSE FirstExits(posN)]_vars

\* The check_open_orders pass of the cycle of the entry fill is over and both
\* exit orders were accepted.
C5_Witness ==
    \E sym \in AllSymbols :
        /\ positions[sym].status = "OPEN" /\ hist[sym].opened = cycle /\ fpc = "at87"
        /\ Exits(sym) = FirstExits(positions[sym])
        /\ positions[sym].sl_order_id # 0 /\ positions[sym].target_order_id # 0

\* C5 as stated: at the end of the cycle in which the entry order was polled
\* FILLED, that cycle has issued for the position exactly one stop placement
\* followed by exactly one limit placement.
C5_OnePlacementPairInFillCycle ==
    \A sym \in AllSymbols :
        (fpc = "dt209" /\ hist[sym].opened = cycle) =>
            Exits(sym) = FirstExits(positions[sym])

\* C6: the breakeven step (cancel both, move the stop, place both again) is
\* executed at most once per position, whatever the quotes.
C6_BreakevenAtMostOnce ==
    \A sym \in AllSymbols :
        /\ hist[sym].be <= 1
        /\ Len(ExitsBy(sym, "mp")) <= 2 * hist[sym].be

\* The quote is half the way from entry to target or beyond.
HalfWay(pos, q) ==
    IF pos.type = "LONG"
    THEN 2 * (q - pos.entry_price) >= pos.target - pos.entry_price
    ELSE 2 * (pos.entry_price - q) >= pos.entry_price - pos.target

\* The adjustment was done in an earlier cycle and the quote is beyond the
\* midpoint again.
C6_Witness ==
    \E sym \in AllSymbols :
        /\ hist[sym].be = 1 /\ fpc = "mp180" /\ Current(sym)
        /\ HalfWay(positions[sym], quote)

\* C7: for an OPEN position with both exit orders whose quote is at least
\* half the way from entry to target and whose stop is not at the entry, the
\* cycle cancels the stop order and the target order, sets stop_loss to
\* entry_price and requests a stop order at entry_price, then a limit order
\* at the target; entry_price and target do not change.
C7_BreakevenAdjustment ==
    [][\A sym \in AllSymbols :
         LET pos  == positions[sym]
             posN == positions'[sym]
             same == posN.entry_price = pos.entry_price /\ posN.target = pos.target
                     /\ pos.target = entry_levels(pos.type).target
             new  == orders'[Len(orders')]
         IN  (Current(sym) /\ fpc' # fpc) =>
             /\ (fpc = "mp180" /\ HalfWay(pos, quote) /\ pos.stop_loss # pos.entry_price) =>
                    fpc' = "mp183"
             /\ (fpc = "mp183" /\ pos.sl_order_id # 0 /\ pos.target_order_id # 0) =>
                    /\ orders'[pos.sl_order_id].status # "PENDING"
                    /\ orders'[pos.target_order_id].status # "PENDING"
                    /\ posN.stop_loss = pos.entry_price
                    /\ same
                    /\ fpc' = "pe63" /\ ret' = "mp"
             /\ (fpc = "pe63" /\ ret = "mp") =>
                    /\ Len(orders') = Len(orders) + 1
                    /\ new.kind = "STOP" /\ new.sym = sym /\ new.price = pos.entry_price
                    /\ posN.stop_loss = pos.entry_price
                    /\ same
                    /\ fpc' = "pe77" /\ ret' = "mp"
             /\ (fpc = "pe77" /\ ret = "mp") =>
                    /\ Len(orders') = Len(orders) + 1
                    /\ new.kind = "LIMIT" /\ new.sym = sym /\ new.price = pos.target
                    /\ posN.stop_loss = pos.entry_price
                    /\ same]_vars

\* LONG, entry 100, target 110, stop 95, quote 106: the old exit orders are
\* cancelled, the stop is 100, the new orders are at 100 and at 110.
C7_Witness ==
    \E sym \in AllSymbols :
        LET pos == positions[sym] IN
        /\ pos.type = "LONG" /\ pos.entry_price = 100 /\ pos.target = 110
        /\ pos.stop_loss = 100 /\ quote = 106 /\ fpc = "mp197" /\ Current(sym)
        /\ Exits(sym) = <<<<"STOP", 95>>, <<"LIMIT", 110>>, <<"STOP", 100>>, <<"LIMIT", 110>>>>
        /\ \A o \in 1..Len(orders) :
              orders[o].by = "co" => orders[o].status = "CANCELLED"
        /\ orders[pos.sl_order_id].price = 100 /\ orders[pos.sl_order_id].status = "PENDING"
        /\ orders[pos.target_order_id].price = 110
        /\ orders[pos.target_order_id].status = "PENDING"

\* C8: when manage_positions is over, a position that was OPEN with its stop
\* order FILLED when the cycle began (and whose target order did not fill)
\* is CLOSED_SL and its target order is cancelled; with the target order
\* FILLED (and the stop order not filled) it is CLOSED_TARGET and its stop
\* order is cancelled.
C8_FilledExitClosesPosition ==
    \A sym \in AllSymbols :
        (fpc = "dt209" /\ snap[sym].open /\ snap[sym].sl # 0 /\ snap[sym].tgt # 0) =>
            /\ (snap[sym].slFilled /\ orders[snap[sym].tgt].status # "FILLED") =>
                  /\ positions[sym].status = "CLOSED_SL"
                  /\ orders[snap[sym].tgt].status = "CANCELLED"
            /\ (snap[sym].tgtFilled /\ orders[snap[sym].sl].status # "FILLED") =>
                  /\ positions[sym].status = "CLOSED_TARGET"
                  /\ orders[snap[sym].sl].status = "CANCELLED"

\* C9: once the status of a position is CLOSED_SL or CLOSED_TARGET, no step
\* changes it.
C9_ClosedIsTerminal ==
    [][\A sym \in AllSymbols :
         positions[sym].status \in Closed =>
            positions'[sym].status = positions[sym].status]_vars

Rank(status) ==
    CASE status = "NONE" -> 0
      [] status = "PENDING_ENTRY" -> 1
      [] status = "OPEN" -> 2
      [] status \in Closed -> 3

\* C10: the status of a position never goes back along PENDING_ENTRY -> OPEN
\* -> {CLOSED_SL, CLOSED_TARGET}, leaves PENDING_ENTRY only for OPEN, and
\* becomes a CLOSED status only from OPEN; a new position is PENDING_ENTRY.
C10_StatusMonotonic ==
    [][\A sym \in AllSymbols :
         LET a == positions[sym].status
             b == positions'[sym].status
         IN  /\ Rank(b) >= Rank(a)
             /\ (a = "NONE" /\ b # a) => b = "PENDING_ENTRY"
             /\ (a = "PENDING_ENTRY" /\ b # a) => b = "OPEN"
             /\ (b \in Closed /\ a \notin Closed) => a = "OPEN"]_vars

\* A position went all the way to a CLOSED status.
C10_Witness ==
    \E sym \in AllSymbols :
        /\ positions[sym].status = "CLOSED_SL"
        /\ hist[sym].opened > 0

----------------------------------------------------------------------------
\* Claims about the positions and the order ids of FVGStrategy

\* The requests for an entry order of sym that the gateway accepted.
EntryOrders(sym) ==
    {o \in 1..Len(orders) : /\ orders[o].kind = "ENTRY"
                            /\ orders[o].sym = sym
                            /\ orders[o].status # "REJECTED"}

\* The step sends the gateway a request of this kind for sym.
Requests(kind, sym) ==
    /\ Len(orders') = Len(orders) + 1
    /\ orders'[Len(orders')].kind = kind
    /\ orders'[Len(orders')].sym = sym

\* C11: the strategy tracks at most one position per symbol: a symbol is
\* listed once among the positions, the gateway has accepted at most one
\* entry order for it, and while a symbol has a position, whatever its
\* status, no step requests an entry order for it or replaces its position.
C11_OnePositionPerSymbol ==
    [][\A sym \in AllSymbols :
          /\ Cardinality(EntryOrders(sym)') <= 1
          /\ Cardinality({i \in 1..Len(posOrder') : posOrder'[i] = sym}) <= 1
          /\ positions[sym].status # "NONE"
                => /\ ~Requests("ENTRY", sym)
                   /\ positions'[sym].status # "NONE"
                   /\ positions'[sym].order_id = positions[sym].order_id
                   /\ positions'[sym].type = positions[sym].type]_vars

\* analyze_and_trade has passed, in a later cycle, over a symbol whose
\* position is closed.
C11_Witness ==
    /\ cycle >= 2
    /\ fpc = "mp178"
    /\ positions["NSE:A"].status \in Closed
    /\ Cardinality(EntryOrders("NSE:A")) = 1

\* The gateway answered 'ok' to request o, a request of this kind for sym.
ReturnedOk(o, kind, sym) ==
    /\ o \in 1..Len(orders)
    /\ orders[o].kind = kind
    /\ orders[o].sym = sym
    /\ orders[o].status # "REJECTED"

\* C12: each order-id field of a position (entry, stop, target) is unset or
\* is an id the gateway returned with 'ok' for a placement of that leg of
\* that symbol.
C12_OrderIdsCameFromGateway ==
    \A sym \in AllSymbols :
        LET pos == positions[sym] IN
        /\ pos.order_id = 0 <=> pos.status = "NONE"
        /\ pos.order_id # 0 => ReturnedOk(pos.order_id, "ENTRY", sym)
        /\ pos.sl_order_id # 0 => ReturnedOk(pos.sl_order_id, "STOP", sym)
        /\ pos.target_order_id # 0 => ReturnedOk(pos.target_order_id, "LIMIT", sym)

\* A position holds an id for each leg, and the gateway has rejected a stop
\* and a limit placement of the symbol.
C12_Witness ==
    LET pos == positions["NSE:A"] IN
    /\ pos.order_id # 0 /\ pos.sl_order_id # 0 /\ pos.target_order_id # 0
    /\ \E o \in 1..Len(orders) : orders[o].kind = "STOP" /\ orders[o].status = "REJECTED"
    /\ \E o \in 1..Len(orders) : orders[o].kind = "LIMIT" /\ orders[o].status = "REJECTED"

\* The gateway rejects the request of this kind that the step sends for sym.
Rejects(kind, sym) ==
    /\ Requests(kind, sym)
    /\ orders'[Len(orders')].status = "REJECTED"

\* C13: whenever the gateway rejects a stop or a target placement, on the
\* entry fill or on the re-placement of the breakeven adjustment, the
\* order-id field of that leg is unset afterwards.
C13_RejectedExitLeavesIdUnset ==
    [][\A sym \in AllSymbols :
          /\ Rejects("STOP", sym) => positions'[sym].sl_order_id = 0
          /\ Rejects("LIMIT", sym) => positions'[sym].target_order_id = 0]_vars

\* C16: a status poll or a quote poll that raises in check_open_orders,
\* manage_positions or display_table is caught within the cycle: a poll
\* failure never ends the loop of run.
C16_PollFailureNeverEndsLoop == fpc # "poll_crashed"

\* The step of the strategy cancels order o: lines 184-185 and 192-193, line
\* 199, line 205.
Cancels(sym, o) ==
    LET pos == positions[sym] IN
    /\ Current(sym)
    /\ fpc' \notin {fpc, "poll_crashed"}
    /\ \/ /\ fpc = "mp183"
          /\ pos.sl_order_id # 0 /\ pos.target_order_id # 0
          /\ o \in {pos.sl_order_id, pos.target_order_id}
       \/ /\ fpc = "mp197"
          /\ pos.sl_order_id # 0 /\ pos.target_order_id # 0
          /\ get_order_status(pos.sl_order_id) = "FILLED"
          /\ o = pos.target_order_id
       \/ /\ fpc = "mp203"
          /\ pos.target_order_id # 0
          /\ get_order_status(pos.target_order_id) = "FILLED"
          /\ o = pos.sl_order_id

\* C20: a step that cancels an exit order already FILLED or already
\* CANCELLED does not abort the cycle, leaves the status of that order at the
\* gateway as it is, and leaves a position status that has reached
\* CLOSED_SL or CLOSED_TARGET as it is.
C20_CancelOfTerminalOrderIsNoop ==
    [][\A sym \in AllSymbols : \A o \in 1..Len(orders) :
          (Cancels(sym, o) /\ orders[o].status \in {"FILLED", "CANCELLED"})
            => /\ fpc' # "crashed"
               /\ orders'[o].status = orders[o].status
               /\ positions[sym].status \in Closed
                     => positions'[sym].status = positions[sym].status]_vars

----------------------------------------------------------------------------
\* Claims about start, the bootstrap of the child and the log channel

\* Thread t runs lines 92-97 of a start call whose configuration file does
\* not exist.
StartsUnconfigured(t) ==
    /\ tpc[t] = "start92"
    /\ tpc'[t] # "start92"
    /\ ~config_exists(strategy_name[t])

\* The step spawns nothing and leaves the process handle and the log channel
\* as they are.
NothingSpawned ==
    /\ process' = process
    /\ procs' = procs
    /\ cpc' = cpc
    /\ log_queue' = log_queue

\* C17 as amended: a start call for a strategy whose configuration file
\* cannot be located returns at once, 'already running' when a process is
\* alive and the 'config not found' error otherwise; either way it spawns
\* no process and leaves the process handle and the log channel unchanged.
C17_MissingConfigSpawnsNothing ==
    [][\A t \in Threads :
          StartsUnconfigured(t) =>
              /\ tpc'[t] = "idle"
              /\ result'[t] = IF is_alive(process) THEN "already_running"
                                                   ELSE "config_not_found"
              /\ NothingSpawned]_vars

\* start has returned the 'config not found' error on a manager that has a
\* dead process and a message in the log channel.
C17_Witness ==
    /\ tpc[1] = "idle"
    /\ result[1] = "config_not_found"
    /\ process # 0
    /\ log_queue # <<>>

\* C17 as stated: a start call for a strategy whose configuration file cannot
\* be located returns the error status string, spawns no process and leaves
\* the process handle and the log channel unchanged.
C17_MissingConfigReturnsError ==
    [][\A t \in Threads :
          StartsUnconfigured(t) =>
              /\ tpc'[t] = "idle"
              /\ result'[t] = "config_not_found"
              /\ NothingSpawned]_vars

\* The messages child p has put.
SentBy(p) == {i \in 1..Len(sent) : sent[i].pid = p}

\* Child p could not initialise its broker: it has put the message of line
\* 26 or of line 32.
BrokerFailed(p) ==
    \E i \in SentBy(p) : sent[i].text = "broker_error"

\* The process the handle refers to has failed on its broker and has exited.
FailedAndGone ==
    process # 0 /\ BrokerFailed(process) /\ procs[process] = "dead"

\* C18: a child that cannot initialise its broker (BROKER_NAME not set, or
\* the factory returns None) puts one error message, nothing else, and
\* returns without reaching the loop; the manager keeps working: once the
\* child has exited get_status returns 'Stopped', a get_logs call returns
\* the message, and a start call passes the liveness test and spawns a new
\* process.
C18_BrokerFailureEndsTheChildOnly ==
    [][/\ \A p \in Pids :
            BrokerFailed(p)' => /\ cpc'[p] \in {"return", "done"}
                                /\ Cardinality(SentBy(p)') = 1
       /\ \A t \in Threads :
            /\ (FailedAndGone /\ tpc[t] = "status118" /\ tpc'[t] = "idle")
                  => result'[t] = "Stopped"
            /\ (tpc[t] = "logs124" /\ tpc'[t] = "idle")
                  => \A i \in 1..Len(sent) :
                        \E k \in 1..Len(delivered') : delivered'[k] = i
            /\ (FailedAndGone /\ tpc[t] = "start92" /\ tpc'[t] # "start92"
                  /\ config_exists(strategy_name[t]))
                  => tpc'[t] = "start105"
            /\ (FailedAndGone /\ tpc[t] = "start105" /\ tpc'[t] # "start105")
                  => process' # process /\ procs'[process'] = "new"
            /\ (tpc[t] = "start106" /\ tpc'[t] # "start106" /\ procs[process] = "new")
                  => procs'[process] = "alive" /\ result'[t] = "started"]_vars

\* The first child failed on its broker and has exited, get_logs has returned
\* its message, and a later start has spawned a second child, which runs.
C18_Witness ==
    /\ BrokerFailed(1)
    /\ procs[1] = "dead"
    /\ \E k \in 1..Len(delivered) : delivered[k] \in SentBy(1)
    /\ process = 2
    /\ procs[2] = "alive"
    /\ tpc[1] = "idle" /\ result[1] = "started"

\* C19: every successful start binds the process to a fresh log channel:
\* once stop has ended a process and a new start has spawned the next one, a
\* get_logs call returns no message that the stopped process has put.
C19_FreshLogChannelPerStart ==
    \A t \in Threads :
        (tpc[t] = "idle" /\ result[t] = "logs" /\ process # 0 /\ procs[process] # "new")
          => \A k \in 1..Len(logs[t]) :
                LET p == sent[logs[t][k]].pid IN
                ~(p # process /\ p \in joinCalls)

----------------------------------------------------------------------------
\* Claims about the event loop of run_strategy

\* A tick event: a payload with a symbol and a last price.
IsTick(e) == e.symbol /\ e.price

Ticks(events) == SelectSeq(events, IsTick)

RECURSIVE Flatten(_)
\* The elements of the items of a queue, in order.
Flatten(queue) == IF queue = <<>> THEN <<>> ELSE Head(queue) \o Flatten(Tail(queue))

C15_LoopSurvivesExceptions ==
    [][\A p \in Pids :
          /\ raised'[p] = raised[p] + 1
               => /\ emitted' = emitted + 1
                  /\ sent' = Append(sent, [pid |-> p, text |-> "loop_error"])
                  /\ log_queue' = Append(log_queue, emitted')
                  /\ main_queue'[p] = Tail(main_queue[p])
                  /\ cpc'[p] = "get69"
          /\ (cpc[p] = "get69" /\ cpc'[p] # "get69") => cpc'[p] = "break78"]_vars

\* Two events have raised one after the other: the loop went on after the
\* first, reported both and waits for the next event.
C15_Witness ==
    /\ raised[1] = 2
    /\ cpc[1] = "get69"
    /\ Len(sent) = 2
    /\ \A i \in 1..2 : sent[i] = [pid |-> 1, text |-> "loop_error"]

----------------------------------------------------------------------------
\* Claims about the management cycle and the exit orders

\* The management of the positions is over for the running cycle: the pass
\* has reached display_table, or an exception has left run.
ManagementOver == fpc \in {"dt209", "crashed", "poll_crashed"}

\* C21: in every cycle in which a position is OPEN when the cycle begins, the
\* cycle takes for it the breakeven check, then the poll of the stop order,
\* then the poll of the target order, whether or not the adjustment fired.
C21_CheckThenBothPolls ==
    \A sym \in AllSymbols :
        (ManagementOver /\ snap[sym].open)
          => hist[sym].steps = <<"breakeven_check", "stop_poll", "target_poll">>

----------------------------------------------------------------------------
\* Claims about the connect and the order-update notifications

\* C22: every connect or reconnect notification of the tick stream triggers
\* one subscribe call, with no record of earlier ones: n notifications make
\* n calls, and a notification changes nothing in the state of the
\* dispatcher, of the loop, of the strategy or of the log channel.
C22_SubscribeOnEveryConnect ==
    [][\A p \in Pids :
          /\ conn'[p].subscribes = conn'[p].connects
          /\ conn'[p] # conn[p]
               => /\ conn'[p].connects = conn[p].connects + 1
                  /\ UNCHANGED <<main_queue, arrivals, handled, raised>>
                  /\ UNCHANGED <<log_queue, sent, cpc, procs>>
                  /\ UNCHANGED <<positions, posOrder, orders>>]_vars

\* The feed has connected twice, the second time with a tick waiting in the
\* queue of the dispatcher, and the child has subscribed twice.
C22_Witness ==
    /\ conn[1] = [connects |-> 2, subscribes |-> 2]
    /\ main_queue[1] # <<>>
    /\ cpc[1] = "get69"

\* The step is the handling of an order update by child p.
OrderUpdate(p) == sent' = Append(sent, [pid |-> p, text |-> "order_update"])

\* C23: an order-update notification only produces one log message: it
\* changes no position, no order and no order-id field, puts nothing in the
\* queue of the dispatcher and does not reach the handler of the strategy.
C23_OrderUpdateIsOnlyLogged ==
    [][\A p \in Pids :
          OrderUpdate(p)
            => /\ emitted' = emitted + 1
               /\ log_queue' = Append(log_queue, emitted')
               /\ UNCHANGED <<main_queue, arrivals, handled, raised, conn>>
               /\ UNCHANGED <<positions, posOrder, orders>>
               /\ UNCHANGED <<cpc, procs>>]_vars

\* An order update was logged while a tick waited in the queue of the
\* dispatcher, and the loop has then handled the tick.
C23_Witness ==
    /\ \E i \in 1..Len(sent) : sent[i] = [pid |-> 1, text |-> "order_update"]
    /\ Len(handled[1]) = 2
    /\ main_queue[1] = <<>>
    /\ Len(sent) = 2

\* The orders of this kind for sym that are pending at the broker.
Pending(kind, sym) ==
    {o \in 1..Len(orders) : /\ orders[o].kind = kind
                            /\ orders[o].sym = sym
                            /\ orders[o].status = "PENDING"}

\* C24: in every reachable state at most one stop order and at most one
\* target order of a position is pending at the broker, the states during
\* and after the breakeven re-placement included.
C24_AtMostOneLiveOrderPerLeg ==
    \A sym \in AllSymbols :
        /\ Cardinality(Pending("STOP", sym)) <= 1
        /\ Cardinality(Pending("LIMIT", sym)) <= 1

\* After the breakeven re-placement: the first stop and the first target
\* order are cancelled and the new ones are pending.
C24_Witness ==
    \E sym \in AllSymbols :
        /\ hist[sym].be = 1
        /\ Cardinality(Pending("STOP", sym)) = 1
        /\ Cardinality(Pending("LIMIT", sym)) = 1
        /\ \E o \in 1..Len(orders) :
              orders[o].kind = "STOP" /\ orders[o].sym = sym /\ orders[o].status = "CANCELLED"
        /\ \E o \in 1..Len(orders) :
              orders[o].kind = "LIMIT" /\ orders[o].sym = sym /\ orders[o].status = "CANCELLED"

\* The gateway has accepted every placement so far.
AllPlacementsOk == \A o \in 1..Len(orders) : orders[o].status # "REJECTED"

\* The stop order the position refers to is pending or filled at the broker
\* and stands at the stop_loss of the position.
StopTracked(pos) ==
    /\ pos.sl_order_id # 0
    /\ orders[pos.sl_order_id].kind = "STOP"
    /\ orders[pos.sl_order_id].status \in {"PENDING", "FILLED"}
    /\ orders[pos.sl_order_id].price = pos.stop_loss

\* C25: when all placements succeed, at the end of every cycle each OPEN
\* position refers to a stop order that is pending or filled at the broker
\* and whose price is the current stop_loss of the position.
C25_OpenPositionKeepsItsStop ==
    \A sym \in AllSymbols :
        (fpc = "dt209" /\ AllPlacementsOk /\ positions[sym].status = "OPEN")
          => StopTracked(positions[sym])

\* The end of a cycle after the breakeven adjustment: the position is OPEN and
\* its stop order, placed again, stands at the entry price.
C25_Witness ==
    \E sym \in AllSymbols :
        /\ fpc = "dt209"
        /\ AllPlacementsOk
        /\ positions[sym].status = "OPEN"
        /\ hist[sym].be = 1
        /\ positions[sym].stop_loss = positions[sym].entry_price
        /\ orders[positions[sym].sl_order_id].status = "PENDING"

\* An exit placement of the entry fill was rejected: the position is OPEN and
\* has no id for one of its legs.
LegUnset(pos) ==
    pos.status = "OPEN" /\ (pos.sl_order_id = 0 \/ pos.target_order_id = 0)

\* C26: after an exit placement was rejected on the entry fill, the cycles
\* still complete: the management of the position whose leg has no order id
\* does not end the cycle with an exception.
C26_UnsetLegDoesNotAbortCycle ==
    \A sym \in AllSymbols :
        LegUnset(positions[sym]) => fpc # "crashed"

\* C27: a rejected entry placement creates no position and leaves the
\* position table as it is, so the symbol is still untracked and open to a
\* new entry; a position is created only in the step whose entry request the
\* gateway acknowledges, with the id of that order, in PENDING_ENTRY, without
\* exit order ids.
C27_PositionOnlyWithAcknowledgedEntry ==
    [][\A sym \in AllSymbols :
          /\ Rejects("ENTRY", sym)
               => /\ positions' = positions
                  /\ posOrder' = posOrder
                  /\ ~tracked(sym)'
          /\ (positions[sym].status = "NONE" /\ positions'[sym].status # "NONE")
               => /\ Requests("ENTRY", sym)
                  /\ orders'[Len(orders')].status # "REJECTED"
                  /\ positions'[sym].order_id = Len(orders')
                  /\ positions'[sym].status = "PENDING_ENTRY"
                  /\ positions'[sym].sl_order_id = 0
                  /\ positions'[sym].target_order_id = 0]_vars

\* The entry of a symbol was rejected in one cycle and acknowledged in a
\* later one: the position refers to the second request.
C27_Witness ==
    \E sym \in AllSymbols :
        /\ Len(orders) >= 2
        /\ orders[1].kind = "ENTRY" /\ orders[1].sym = sym /\ orders[1].status = "REJECTED"
        /\ positions[sym].status = "PENDING_ENTRY"
        /\ positions[sym].order_id = 2
        /\ cycle >= 2

\* C28: a position is never removed from the table nor replaced: a tracked
\* symbol stays tracked, with the same entry order, side and entry price; a
\* closed position stays closed, and no step places an entry, a stop or a
\* target order for its symbol.
C28_ClosedPositionStaysAndPlacesNothing ==
    [][\A sym \in AllSymbols :
          LET pos  == positions[sym]
              posN == positions'[sym]
          IN
          /\ pos.status # "NONE"
               => /\ posN.status # "NONE"
                  /\ \E i \in 1..Len(posOrder') : posOrder'[i] = sym
                  /\ posN.order_id = pos.order_id
                  /\ posN.type = pos.type
                  /\ posN.entry_price = pos.entry_price
                  /\ posN.target = pos.target
          /\ pos.status \in Closed
               => /\ posN.status \in Closed
                  /\ \A kind \in {"ENTRY", "STOP", "LIMIT"} : ~Requests(kind, sym)]_vars

\* A cycle that began with the position closed has passed through
\* check_open_orders, analyze_and_trade and manage_positions.
C28_Witness ==
    \E sym \in AllSymbols :
        /\ positions[sym].status \in Closed
        /\ hist[sym].opened < cycle
        /\ ~snap[sym].open
        /\ fpc = "dt209"

====
